---- MODULE Spec2Model ----
(***************************************************************************)
(* Verification model of the smart-home voice assistant:                   *)
(*   - the file-backed broker (local_mqtt_broker.py): publish, the tailer  *)
(*     read_messages, the subscriber's queue (mqtt_simulator.py);          *)
(*   - the transport client (mqtt_client.py) and device state              *)
(*     (device_state.py);                                                  *)
(*   - the voice loop (voice_assistant.py) and the segmenter               *)
(*     (audio_interface.py).                                               *)
(***************************************************************************)
EXTENDS Integers, Sequences, FiniteSets, TLC

(***************************************************************************)
(* Bounds of the model.                                                    *)
(***************************************************************************)
\* lines ever appended to the message file
MaxLines == 3
\* capacity of the subscriber's queue (100 in mqtt_simulator.py:154, scaled)
QueueCap == 2
\* messages the subscriber's main loop dequeues
MaxRecv == 3
\* frames the capture thread reads from the audio source
MaxFrames == 10
\* utterances the foreground loop processes
MaxUtter == 2
\* entries of the conversation history (max_history=10 in
\* voice_assistant.py:47, scaled)
MaxHistory == 4
\* silence_limit, in frame periods (1.0 s in voice_assistant.py:41, scaled)
SilenceLimit == 1
\* ACTIVE_WINDOW, in clock ticks (30 s in voice_assistant.py:82, scaled)
ACTIVE_WINDOW == 2
\* last tick of the wall clock
MaxTime == 5
\* threads or processes that call publish concurrently
NumPublishers == 2
\* add_message calls made on one conversation history
MaxAdds == 6
\* queue.Queue objects of the publishing process that may be subscribed
NumQueues == 3
\* registrations (topic, queue) the publishing process makes in all
MaxSubs == 3
\* threads of one process that call get_broker
NumThreads == 3
\* processes that construct a broker on the same message file
NumProcs == 2
\* a capacity to hold the capture queue against: queue.Queue() in
\* voice_assistant.py:19 has none, and no finite one is ever enforced
CaptureCap == 1
\* samples of a frame given to _calculate_energy (1024 in audio_interface.py:16)
MaxSamples == 2
\* width of a sample: np.int16
SampleBits == 16
\* the threshold main() constructs its AudioInterface with
energy_threshold == 30

VARIABLES
    \* ---- the broker's message file and one tailer (local_mqtt_broker.py)
    message_file,     \* the lines of .mqtt_messages.jsonl, in file order
    nextId,           \* sequence number of the next appended line
    last_position,    \* read_messages: the tailer's offset
    tpc,              \* read_messages: "poll" (top of the loop) or "deliver"
    new_lines,        \* read_messages: lines read and not yet processed
    readEnd,          \* read_messages: position of the file object after the read
    callback_queue,   \* the subscriber's queue.Queue(maxsize=QueueCap)
    \* ---- history of the run, read by the properties only
    received,         \* ids the subscriber dequeued, in order
    enqueued,         \* ids the tailer ever put on the queue
    putCount,         \* times the tailer put each id on the queue (2: twice or more)
    truncId,          \* nextId at the last truncation of the file
    parsedBad,        \* ids of unparseable lines the tailer tried to parse
    lastOverflow,     \* id put by the last overflowing delivery, 0 once dequeued
    cutBelow,         \* the file was cut below the tailer's offset since its last poll
    \* ---- the subscriber process and its shutdown (MQTTSimulator.start)
    running,          \* broker.running, the flag read_messages loops on
    simulator,        \* the main thread of start: "loop" or "returned"
    interrupted,      \* a KeyboardInterrupt has been sent to the process
    \* ---- the energy gate (AudioInterface._calculate_energy)
    samples,          \* the samples of the frame last measured
    above,            \* energy > energy_threshold, as the code found it
    \* ---- processes constructing their broker (LocalMQTTBroker.__init__)
    file_exists,      \* os.path.exists(message_file)
    ctors,            \* per process: "start", "create" (found no file), "built"
    \* ---- concurrent callers of LocalMQTTBroker.publish
    publishers,       \* per caller: position in publish, and what it has done
    \* ---- the same-process fast path (subscribe, second half of publish)
    subscriptions,    \* LocalMQTTBroker.subscriptions: topic -> list of queues
    queues,           \* contents of each queue.Queue(maxsize=QueueCap)
    fast,             \* the last publish of this process: what it did, for the properties
    resubscribed,         \* the (topic, queue) last subscribed when already registered
    \* ---- the process-wide broker (get_broker)
    global_broker,    \* _global_broker: 0 for None, else the instance it names
    instances,        \* LocalMQTTBroker objects constructed so far in the process
    callers,          \* per thread: position in get_broker, and what it holds
    \* ---- shared by the capture thread and the foreground loop
    audio_queue,      \* voice_assistant.audio_queue: utterances (sequences of frames)
    paused,           \* AudioInterface._paused
    \* ---- the capture thread (AudioInterface.listen_for_speech, listen_worker)
    cpc,              \* "read", "test" (frame read, flag not yet tested), "segment"
    data,             \* the frame just read
    frames,           \* frames of the utterance in progress
    is_speaking,
    silence_start,    \* 0 for None, else the time the silence began
    clock,            \* frames read so far; time in frame periods
    doomed,           \* ids of the frames buffered when pause() hit a segment
    pauseAt,          \* clock when pause() last hit a segment in progress, else 0
    emitted,          \* every utterance listen_worker put on audio_queue, in order
    errAt,            \* clock at the last failed stream.read, 0 if none failed
    \* ---- the foreground loop (voice_assistant.main)
    fpc,              \* "wait", "pause", "tts", "resume"
    response_text,
    devices,          \* DeviceState.devices
    conversation_history,
    last_interaction_time,
    now,              \* time.time(), in ticks
    mqtt_available,
    iter,             \* what the last iteration of the loop did
    heard,            \* every utterance the loop got from audio_queue, in order
    spoken            \* how the last synthesis and playback went

gateVars == <<samples, above>>

initVars == <<file_exists, ctors>>

otherVars == <<gateVars, initVars>>

shutdownVars == <<running, simulator, interrupted>>

singletonVars == <<global_broker, instances, callers>>

procVars == <<subscriptions, queues, fast, resubscribed, singletonVars>>

brokerVars == <<message_file, nextId, last_position, tpc, new_lines, readEnd,
                callback_queue, received, enqueued, putCount, truncId,
                parsedBad, lastOverflow, cutBelow, publishers, procVars,
                shutdownVars, otherVars>>

tailerVars == <<last_position, tpc, new_lines, readEnd, callback_queue,
                received, enqueued, putCount, truncId, parsedBad, lastOverflow,
                cutBelow, shutdownVars>>

captureVars == <<cpc, data, frames, is_speaking, silence_start, clock, doomed,
                 pauseAt, emitted, errAt>>

loopVars == <<fpc, response_text, devices, conversation_history,
              last_interaction_time, now, mqtt_available, iter, heard, spoken>>

voiceVars == <<audio_queue, paused, captureVars, loopVars>>

vars == <<brokerVars, voiceVars>>

(***************************************************************************)
(* Lines of the message file.                                              *)
(*   kind "record"  a record {topic, payload, timestamp} written by        *)
(*                  publish                                                *)
(*   kind "badjson" a line json.loads rejects (JSONDecodeError)            *)
(*   kind "nonobj"  valid JSON that is not an object (5, "x", [1], null)   *)
(* id is the sequence number of the line, topic the record's topic, type   *)
(* the command type in its payload.                                        *)
(***************************************************************************)
ForeignKinds == {"badjson", "nonobj"}

\* MQTTClient.topic and MQTTSimulator.topic, and a topic nobody tails
CommandTopic == "smart_home/command"
AllTopics == {CommandTopic, "other/topic"}

\* the topics the tailer was started with: [self.topic]
Topics == {CommandTopic}

\* bytes of a line, newline included: a record is longer than a stray line
LineLen(line) == IF line.kind = "record" THEN 2 ELSE 1

RECURSIVE SizeOf(_)
\* os.path.getsize(message_file)
SizeOf(file) ==
    IF file = <<>> THEN 0 ELSE LineLen(Head(file)) + SizeOf(Tail(file))

\* offset of the first byte of line i
StartOf(file, i) == SizeOf(SubSeq(file, 1, i - 1))
\* offset after the last byte of line i
EndOf(file, i) == SizeOf(SubSeq(file, 1, i))

RECURSIVE ReadRev(_, _, _)
\* mutant of ReadLines: the lines come out in reverse file order
ReadRev(file, pos, i) ==
    IF i > Len(file) THEN <<>>
    ELSE IF EndOf(file, i) <= pos THEN ReadRev(file, pos, i + 1)
    ELSE ReadRev(file, pos, i + 1) \o
         <<IF StartOf(file, i) >= pos THEN file[i]
           ELSE [file[i] EXCEPT !.kind = "badjson", !.topic = "-"]>>

RECURSIVE ReadLines(_, _, _)
\* f.seek(pos); for line in f: the lines from pos to the end of the file, in
\* file order. A seek into the middle of a line yields the rest of that line,
\* which does not parse.
ReadLines(file, pos, i) ==
    IF i > Len(file) THEN <<>>
    ELSE IF EndOf(file, i) <= pos THEN ReadLines(file, pos, i + 1)
    ELSE <<IF StartOf(file, i) >= pos THEN file[i]
           ELSE [file[i] EXCEPT !.kind = "badjson", !.topic = "-"]>>
         \o ReadLines(file, pos, i + 1)

\* mutant of ResetPosition: every poll starts again at the top of the file
ResetAlways(file_size, pos) == 0

\* if file_size < last_position: last_position = 0
ResetPosition(file_size, pos) == IF file_size < pos THEN 0 ELSE pos

\* mutant of PutNowait: a full queue loses only its oldest message
PutDropOldest(q, m) ==
    IF Len(q) < QueueCap THEN Append(q, m) ELSE Append(Tail(q), m)

\* callback_queue.put_nowait(message); on queue.Full the queue is emptied and
\* the message is put alone
PutNowait(q, m) ==
    IF Len(q) < QueueCap THEN Append(q, m) ELSE <<m>>

\* mutant of TopicMatches: every parsed record matches
TopicAny(line, topics) == line.kind = "record"

\* json.loads(line) succeeded with an object and message.get('topic') in topics
TopicMatches(line, topics) == line.kind = "record" /\ line.topic \in topics

\* what processing one line does: "ok" (parsed to an object), "skip"
\* (json.JSONDecodeError, caught per line), "raise" (message.get on a value
\* that is no dict: AttributeError, caught by the loop's outer handler)
ParseLine(line) ==
    CASE line.kind = "record" -> "ok"
      [] line.kind = "badjson" -> "skip"
      [] OTHER -> "raise"

\* a caller outside publish; result is what its last call returned
IdlePublisher == [pc |-> "idle", topic |-> "-", before |-> <<>>, id |-> 0,
                  result |-> "none"]

\* the queues of the publishing process
QueueIds == 1..NumQueues

\* the elements of a list
Range(list) == {list[i] : i \in 1..Len(list)}

\* mutant of Subscribe: the queue is appended without the membership test
SubscribeAgain(subs, topic, q) == [subs EXCEPT ![topic] = Append(@, q)]

\* LocalMQTTBroker.subscribe: the topic's list is created if missing (a topic
\* without a key is a topic with the empty list here), and the queue is
\* appended unless it is already in the list
Subscribe(subs, topic, q) ==
    IF q \in Range(subs[topic]) THEN subs
    ELSE [subs EXCEPT ![topic] = Append(@, q)]

\* try: callback_queue.put_nowait(message) except queue.Full: pass
FastPut(q, m) == IF Len(q) < QueueCap THEN Append(q, m) ELSE q

RECURSIVE NotifyAll(_, _, _)
\* for callback_queue in self.subscriptions[topic]: one FastPut per entry of
\* the list, in list order
NotifyAll(qs, list, m) ==
    IF list = <<>> THEN qs
    ELSE NotifyAll([qs EXCEPT ![Head(list)] = FastPut(@, m)], Tail(list), m)

\* mutant of Notify: the loop stops at the first full queue
NotifyUntilFull(subs, qs, topic, m) ==
    LET list == subs[topic]
        stop == {i \in 1..Len(list) : Len(qs[list[i]]) >= QueueCap}
        upto == IF stop = {} THEN Len(list)
                ELSE (CHOOSE i \in stop : \A j \in stop : i <= j) - 1
    IN NotifyAll(qs, SubSeq(list, 1, upto), m)

\* with self._lock: if topic in self.subscriptions: for callback_queue in ...
Notify(subs, qs, topic, m) == NotifyAll(qs, subs[topic], m)

RECURSIVE SumLen(_, _)
SumLen(subs, topics) ==
    IF topics = {} THEN 0
    ELSE LET t == CHOOSE x \in topics : TRUE
         IN Len(subs[t]) + SumLen(subs, topics \ {t})

\* entries of the subscription table, over all topics
Registered(subs) == SumLen(subs, AllTopics)

\* mutant of FastPath: the subscribers are notified whether or not the write
\* succeeded
FastPathAlways(subs, qs, topic, m, ok) == Notify(subs, qs, topic, m)

\* publish after its try block: the except branch has returned False before
\* the notification; otherwise the subscribers of the topic are notified
FastPath(subs, qs, topic, m, ok) ==
    IF ok THEN Notify(subs, qs, topic, m) ELSE qs

\* no publish made by this process yet
NoPublish == [id |-> 0, topic |-> "-", ok |-> FALSE, full |-> {}, listed |-> {}]

\* a thread outside get_broker; mine is the instance it constructed in its
\* current call, got what its last call returned (0: nothing yet)
IdleCaller == [pc |-> "idle", mine |-> 0, got |-> 0]

(***************************************************************************)
(* Initial state: an empty message file, the tailer thread started.        *)
(***************************************************************************)
\* every process has constructed its broker, so the file exists
Constructed ==
    /\ file_exists = TRUE
    /\ ctors = [p \in 1..NumProcs |-> "built"]

\* no process has constructed its broker yet; the file may be left from an
\* earlier run or be missing
Unconstructed ==
    /\ file_exists \in BOOLEAN
    /\ ctors = [p \in 1..NumProcs |-> "start"]

InitBrokerState ==
    /\ message_file = <<>>
    /\ nextId = 1
    /\ last_position = 0
    /\ tpc = "poll"
    /\ new_lines = <<>>
    /\ readEnd = 0
    /\ callback_queue = <<>>
    /\ received = <<>>
    /\ enqueued = {}
    /\ putCount = [i \in 1..MaxLines |-> 0]
    /\ truncId = 1
    /\ parsedBad = {}
    /\ lastOverflow = 0
    /\ cutBelow = FALSE
    /\ samples = <<>>
    /\ above = FALSE
    /\ running = TRUE
    /\ simulator = "loop"
    /\ interrupted = FALSE
    /\ publishers = [p \in 1..NumPublishers |-> IdlePublisher]
    /\ subscriptions = [t \in AllTopics |-> <<>>]
    /\ queues = [q \in QueueIds |-> <<>>]
    /\ fast = NoPublish
    /\ resubscribed = <<>>
    /\ global_broker = 0
    /\ instances = 0
    /\ callers = [t \in 1..NumThreads |-> IdleCaller]

InitBroker == InitBrokerState /\ Constructed

(***************************************************************************)
(* Writers of the message file.                                            *)
(***************************************************************************)
\* mutant of BrokerPublish: the file is opened for writing, not for append
PublishTruncating(file, id, topic, type, diskOk) ==
    [file |-> IF diskOk
              THEN <<[id |-> id, kind |-> "record", topic |-> topic,
                      type |-> type]>>
              ELSE file,
     ok |-> diskOk]

\* LocalMQTTBroker.publish: one record appended and flushed, True; or the
\* write raised, nothing appended, False
BrokerPublish(file, id, topic, type, diskOk) ==
    [file |-> IF diskOk
              THEN Append(file, [id |-> id, kind |-> "record",
                                 topic |-> topic, type |-> type])
              ELSE file,
     ok |-> diskOk]

\* LocalMQTTBroker.publish called in another process
Publish(topic) ==
    /\ UNCHANGED <<voiceVars, otherVars, publishers, procVars, shutdownVars>>
    /\ nextId <= MaxLines
    /\ \E diskOk \in BOOLEAN :
           LET p == BrokerPublish(message_file, nextId, topic, "ac", diskOk)
           IN /\ message_file' = p.file
              /\ nextId' = IF p.ok THEN nextId + 1 ELSE nextId
    /\ UNCHANGED <<last_position, tpc, new_lines, readEnd, callback_queue,
                   received, enqueued, putCount, truncId, parsedBad,
                   lastOverflow, cutBelow>>

\* LocalMQTTBroker.publish called in the process that holds the subscriptions:
\* the record is appended, then the subscribers of the topic are notified; a
\* failed write returns False before the notification. fast keeps the topic,
\* the result, and which queues were listed for the topic and which of them
\* were full when the call began.
PublishLocal(topic) ==
    /\ UNCHANGED <<voiceVars, otherVars, publishers>>
    /\ nextId <= MaxLines
    /\ \E diskOk \in BOOLEAN :
           LET p == BrokerPublish(message_file, nextId, topic, "ac", diskOk)
           IN /\ message_file' = p.file
              /\ nextId' = IF p.ok THEN nextId + 1 ELSE nextId
              /\ queues' = FastPath(subscriptions, queues, topic, nextId,
                                    p.ok)
              /\ fast' = [id |-> nextId, topic |-> topic, ok |-> p.ok,
                          listed |-> Range(subscriptions[topic]),
                          full |-> {q \in Range(subscriptions[topic]) :
                                       Len(queues[q]) >= QueueCap}]
    /\ UNCHANGED <<subscriptions, resubscribed, tailerVars, singletonVars>>

\* the queues registered for some topic
Subscribed(subs) == UNION {Range(subs[t]) : t \in AllTopics}

\* broker.subscribe(topic, queue) called in the publishing process. Queue
\* objects are interchangeable: they are numbered in the order of their first
\* subscription.
SubscribeQueue(topic, q) ==
    /\ UNCHANGED <<voiceVars, otherVars, publishers>>
    /\ Registered(subscriptions) < MaxSubs
    /\ q <= Cardinality(Subscribed(subscriptions)) + 1
    /\ subscriptions' = Subscribe(subscriptions, topic, q)
    /\ resubscribed' = IF q \in Range(subscriptions[topic]) THEN <<topic, q>>
                   ELSE resubscribed
    /\ UNCHANGED <<message_file, nextId, tailerVars, queues, fast,
                   singletonVars>>

(***************************************************************************)
(* LocalMQTTBroker.__init__ in a process p, in its two file operations,    *)
(* and publish called by a process that has its broker.                    *)
(***************************************************************************)
\* if not os.path.exists(self.message_file):
CtorTest(p) ==
    /\ UNCHANGED <<voiceVars, gateVars, publishers, procVars>>
    /\ ctors[p] = "start"
    /\ ctors' = [ctors EXCEPT ![p] = IF file_exists THEN "built" ELSE "create"]
    /\ UNCHANGED <<message_file, nextId, tailerVars, file_exists>>

\* with open(self.message_file, 'w'): the file is created, or emptied if it
\* exists by now
CtorCreate(p) ==
    /\ UNCHANGED <<voiceVars, gateVars, publishers, procVars>>
    /\ ctors[p] = "create"
    /\ message_file' = <<>>
    /\ file_exists' = TRUE
    /\ ctors' = [ctors EXCEPT ![p] = "built"]
    /\ UNCHANGED <<nextId, tailerVars>>

\* publish in a process whose broker is constructed
ProcPublish(p) ==
    /\ ctors[p] = "built"
    /\ \E topic \in AllTopics : Publish(topic)

(***************************************************************************)
(* Shutdown of the subscriber process.                                     *)
(***************************************************************************)
\* Ctrl-C: a KeyboardInterrupt is raised in the main thread of the process
Interrupt ==
    /\ UNCHANGED <<voiceVars, otherVars, publishers, procVars>>
    /\ ~interrupted
    /\ interrupted' = TRUE
    /\ UNCHANGED <<message_file, nextId, last_position, tpc, new_lines,
                   readEnd, callback_queue, received, enqueued, putCount,
                   truncId, parsedBad, lastOverflow, cutBelow, running,
                   simulator>>

\* MQTTSimulator.start on KeyboardInterrupt: break out of the loop, or
\* self.running = False in the outer handler, then return. broker.running is
\* not assigned on either path.
SimulatorStop ==
    /\ UNCHANGED <<voiceVars, otherVars, publishers, procVars>>
    /\ interrupted
    /\ simulator = "loop"
    /\ simulator' = "returned"
    /\ UNCHANGED <<message_file, nextId, last_position, tpc, new_lines,
                   readEnd, callback_queue, received, enqueued, putCount,
                   truncId, parsedBad, lastOverflow, cutBelow, running,
                   interrupted>>

(***************************************************************************)
(* get_broker, statement by statement, for a thread t of the process. No   *)
(* lock is held between the test and the assignment.                       *)
(***************************************************************************)
\* if _global_broker is None:
GetBrokerTest(t) ==
    /\ UNCHANGED <<voiceVars, otherVars, publishers, subscriptions, queues, fast,
                   resubscribed>>
    /\ callers[t].pc = "idle"
    /\ callers' = [callers EXCEPT
                     ![t].pc = IF global_broker = 0 THEN "construct"
                               ELSE "return",
                     ![t].mine = 0]
    /\ UNCHANGED <<message_file, nextId, tailerVars, global_broker, instances>>

\* LocalMQTTBroker(): a new object
GetBrokerConstruct(t) ==
    /\ UNCHANGED <<voiceVars, otherVars, publishers, subscriptions, queues, fast,
                   resubscribed>>
    /\ callers[t].pc = "construct"
    /\ instances' = instances + 1
    /\ callers' = [callers EXCEPT ![t].pc = "assign",
                                  ![t].mine = instances + 1]
    /\ UNCHANGED <<message_file, nextId, tailerVars, global_broker>>

\* _global_broker = <the new object>
GetBrokerAssign(t) ==
    /\ UNCHANGED <<voiceVars, otherVars, publishers, subscriptions, queues, fast,
                   resubscribed>>
    /\ callers[t].pc = "assign"
    /\ global_broker' = callers[t].mine
    /\ callers' = [callers EXCEPT ![t].pc = "return"]
    /\ UNCHANGED <<message_file, nextId, tailerVars, instances>>

\* return _global_broker
GetBrokerReturn(t) ==
    /\ UNCHANGED <<voiceVars, otherVars, publishers, subscriptions, queues, fast,
                   resubscribed>>
    /\ callers[t].pc = "return"
    /\ callers' = [callers EXCEPT ![t].pc = "idle",
                                  ![t].got = global_broker]
    /\ UNCHANGED <<message_file, nextId, tailerVars, global_broker, instances>>

get_broker(t) ==
    \/ GetBrokerTest(t) \/ GetBrokerConstruct(t)
    \/ GetBrokerAssign(t) \/ GetBrokerReturn(t)

\* publish step by step, for a caller p among several. PubOpen: the message
\* is built and the file opened for append, or open raises. before is the
\* file as it was when the call began.
PubOpen(p) ==
    /\ UNCHANGED <<voiceVars, otherVars, procVars>>
    /\ publishers[p].pc = "idle"
    /\ nextId + Cardinality({q \in 1..NumPublishers :
                                publishers[q].pc = "opened"}) <= MaxLines
    /\ \E topic \in AllTopics, openOk \in BOOLEAN :
           publishers' = [publishers EXCEPT ![p] =
               [pc |-> IF openOk THEN "opened" ELSE "failed",
                topic |-> topic, before |-> message_file, id |-> 0,
                result |-> "none"]]
    /\ UNCHANGED <<message_file, nextId, tailerVars>>

\* f.write(line); f.flush(): the line reaches the file in one append, or the
\* write raises
PubWrite(p) ==
    /\ UNCHANGED <<voiceVars, otherVars, procVars>>
    /\ publishers[p].pc = "opened"
    /\ \E diskOk \in BOOLEAN :
           LET w == BrokerPublish(message_file, nextId, publishers[p].topic,
                                  "ac", diskOk)
           IN /\ message_file' = w.file
              /\ nextId' = IF w.ok THEN nextId + 1 ELSE nextId
              /\ publishers' = [publishers EXCEPT
                                  ![p].pc = IF w.ok THEN "written" ELSE "failed",
                                  ![p].id = IF w.ok THEN nextId ELSE 0]
    /\ UNCHANGED tailerVars

\* return True after the write, return False from the except branch
PubReturn(p) ==
    /\ UNCHANGED <<voiceVars, otherVars, procVars>>
    /\ publishers[p].pc \in {"written", "failed"}
    /\ publishers' = [publishers EXCEPT
                        ![p].pc = "idle",
                        ![p].result = IF publishers[p].pc = "written"
                                      THEN "True" ELSE "False"]
    /\ UNCHANGED <<message_file, nextId, tailerVars>>

\* a line that is no message record, written by anything else sharing the file
AppendForeign(kind) ==
    /\ UNCHANGED <<voiceVars, otherVars, publishers, procVars, shutdownVars>>
    /\ nextId <= MaxLines
    /\ message_file' = Append(message_file,
                              [id |-> nextId, kind |-> kind,
                               topic |-> "-", type |-> "-"])
    /\ nextId' = nextId + 1
    /\ UNCHANGED <<last_position, tpc, new_lines, readEnd, callback_queue,
                   received, enqueued, putCount, truncId, parsedBad,
                   lastOverflow, cutBelow>>

\* the file is truncated or reset (rotation): a proper prefix of its lines stays
Truncate ==
    /\ UNCHANGED <<voiceVars, otherVars, publishers, procVars, shutdownVars>>
    /\ message_file # <<>>
    /\ \E k \in 0..(Len(message_file) - 1) :
           /\ message_file' = SubSeq(message_file, 1, k)
           /\ cutBelow' = (cutBelow \/
                           SizeOf(SubSeq(message_file, 1, k)) < last_position)
    /\ truncId' = nextId
    /\ UNCHANGED <<nextId, last_position, tpc, new_lines, readEnd,
                   callback_queue, received, enqueued, putCount, parsedBad,
                   lastOverflow>>

(***************************************************************************)
(* The tailer: LocalMQTTBroker.read_messages, one iteration of its loop in *)
(* three kinds of step (stat and read; one line processed; position kept). *)
(***************************************************************************)
PollBegin ==
    /\ UNCHANGED <<voiceVars, otherVars, publishers, procVars, shutdownVars>>
    /\ tpc = "poll"
    /\ IF ~running
       THEN \* while self.running: the loop is left and the thread ends
            /\ tpc' = "stopped"
            /\ UNCHANGED <<last_position, new_lines, readEnd, cutBelow>>
       ELSE /\ LET file_size == SizeOf(message_file)
                   pos == ResetPosition(file_size, last_position)
               IN /\ last_position' = pos
                  /\ IF file_size > pos
                     THEN /\ new_lines' = ReadLines(message_file, pos, 1)
                          /\ readEnd' = file_size
                          /\ tpc' = "deliver"
                     ELSE UNCHANGED <<new_lines, readEnd, tpc>>
            /\ cutBelow' = FALSE
    /\ UNCHANGED <<message_file, nextId, callback_queue, received, enqueued,
                   putCount, truncId, parsedBad, lastOverflow>>

DeliverLine ==
    /\ UNCHANGED <<voiceVars, otherVars, publishers, procVars, shutdownVars>>
    /\ tpc = "deliver"
    /\ new_lines # <<>>
    /\ LET line == Head(new_lines)
           outcome == ParseLine(line)
       IN /\ parsedBad' = IF outcome = "ok" THEN parsedBad
                          ELSE parsedBad \cup {line.id}
          /\ IF outcome = "raise"
             THEN \* except Exception: the rest of the iteration is abandoned
                  /\ new_lines' = <<>>
                  /\ tpc' = "poll"
                  /\ UNCHANGED <<callback_queue, enqueued, putCount,
                                 lastOverflow>>
             ELSE /\ new_lines' = Tail(new_lines)
                  /\ tpc' = tpc
                  /\ IF outcome = "ok" /\ TopicMatches(line, Topics)
                     THEN /\ callback_queue' = PutNowait(callback_queue, line.id)
                          /\ enqueued' = enqueued \cup {line.id}
                          /\ putCount' = [putCount EXCEPT ![line.id] =
                                             IF @ = 0 THEN 1 ELSE 2]
                          /\ lastOverflow' =
                                 IF Len(callback_queue) >= QueueCap
                                 THEN line.id ELSE lastOverflow
                     ELSE UNCHANGED <<callback_queue, enqueued, putCount,
                                      lastOverflow>>
    /\ UNCHANGED <<message_file, nextId, last_position, readEnd, received,
                   truncId, cutBelow>>

\* last_position = f.tell()
PollEnd ==
    /\ UNCHANGED <<voiceVars, otherVars, publishers, procVars, shutdownVars>>
    /\ tpc = "deliver"
    /\ new_lines = <<>>
    /\ last_position' = readEnd
    /\ tpc' = "poll"
    /\ UNCHANGED <<message_file, nextId, new_lines, readEnd, callback_queue,
                   received, enqueued, putCount, truncId, parsedBad,
                   lastOverflow, cutBelow>>

Tailer == PollBegin \/ DeliverLine \/ PollEnd

(***************************************************************************)
(* The delivery of one line statement by statement, so that the consumer   *)
(* can run between the statements of the overflow handler. tpc is          *)
(* "evict_test" at `while not callback_queue.empty()`, "evict_get" at      *)
(* get_nowait, "insert" at the handler's put_nowait.                       *)
(***************************************************************************)
\* json.loads, the topic test and the first put_nowait; queue.Full enters the
\* handler with the line still at the head of new_lines
DeliverTry ==
    /\ UNCHANGED <<voiceVars, otherVars, publishers, procVars, shutdownVars>>
    /\ tpc = "deliver"
    /\ new_lines # <<>>
    /\ LET line == Head(new_lines)
           outcome == ParseLine(line)
       IN /\ parsedBad' = IF outcome = "ok" THEN parsedBad
                          ELSE parsedBad \cup {line.id}
          /\ IF outcome = "raise"
             THEN /\ new_lines' = <<>>
                  /\ tpc' = "poll"
                  /\ UNCHANGED <<callback_queue, enqueued, putCount>>
             ELSE IF outcome = "ok" /\ TopicMatches(line, Topics)
             THEN IF Len(callback_queue) < QueueCap
                  THEN /\ callback_queue' = Append(callback_queue, line.id)
                       /\ enqueued' = enqueued \cup {line.id}
                       /\ putCount' = [putCount EXCEPT ![line.id] =
                                          IF @ = 0 THEN 1 ELSE 2]
                       /\ new_lines' = Tail(new_lines)
                       /\ tpc' = tpc
                  ELSE /\ tpc' = "evict_test"
                       /\ UNCHANGED <<callback_queue, enqueued, putCount,
                                      new_lines>>
             ELSE /\ new_lines' = Tail(new_lines)
                  /\ tpc' = tpc
                  /\ UNCHANGED <<callback_queue, enqueued, putCount>>
    /\ UNCHANGED <<message_file, nextId, last_position, readEnd, received,
                   truncId, cutBelow, lastOverflow>>

\* while not callback_queue.empty():
EvictTest ==
    /\ UNCHANGED <<voiceVars, otherVars, publishers, procVars, shutdownVars>>
    /\ tpc = "evict_test"
    /\ tpc' = IF callback_queue # <<>> THEN "evict_get" ELSE "insert"
    /\ UNCHANGED <<message_file, nextId, last_position, new_lines, readEnd,
                   callback_queue, received, enqueued, putCount, truncId,
                   parsedBad, lastOverflow, cutBelow>>

\* callback_queue.get_nowait(): the oldest message is discarded; on an empty
\* queue it raises queue.Empty, which the handler's bare except swallows, and
\* the loop goes on with the next line
EvictGet ==
    /\ UNCHANGED <<voiceVars, otherVars, publishers, procVars, shutdownVars>>
    /\ tpc = "evict_get"
    /\ IF callback_queue # <<>>
       THEN /\ callback_queue' = Tail(callback_queue)
            /\ tpc' = "evict_test"
            /\ UNCHANGED new_lines
       ELSE /\ tpc' = "deliver"
            /\ new_lines' = Tail(new_lines)
            /\ UNCHANGED callback_queue
    /\ UNCHANGED <<message_file, nextId, last_position, readEnd, received,
                   enqueued, putCount, truncId, parsedBad, lastOverflow,
                   cutBelow>>

\* callback_queue.put_nowait(message) in the handler; a queue.Full here is
\* swallowed by the bare except as well
EvictInsert ==
    /\ UNCHANGED <<voiceVars, otherVars, publishers, procVars, shutdownVars>>
    /\ tpc = "insert"
    /\ LET line == Head(new_lines)
       IN IF Len(callback_queue) < QueueCap
          THEN /\ callback_queue' = Append(callback_queue, line.id)
               /\ enqueued' = enqueued \cup {line.id}
               /\ putCount' = [putCount EXCEPT ![line.id] =
                                  IF @ = 0 THEN 1 ELSE 2]
               /\ lastOverflow' = line.id
          ELSE UNCHANGED <<callback_queue, enqueued, putCount, lastOverflow>>
    /\ new_lines' = Tail(new_lines)
    /\ tpc' = "deliver"
    /\ UNCHANGED <<message_file, nextId, last_position, readEnd, received,
                   truncId, parsedBad, cutBelow>>

(***************************************************************************)
(* The subscriber: MQTTSimulator.start, message_queue.get in its loop.     *)
(***************************************************************************)
Consume ==
    /\ UNCHANGED <<voiceVars, otherVars, publishers, procVars, shutdownVars>>
    /\ simulator = "loop"
    /\ callback_queue # <<>>
    /\ Len(received) < MaxRecv
    /\ received' = Append(received, Head(callback_queue))
    /\ callback_queue' = Tail(callback_queue)
    /\ lastOverflow' = 0
    /\ UNCHANGED <<message_file, nextId, last_position, tpc, new_lines,
                   readEnd, enqueued, putCount, truncId, parsedBad, cutBelow>>

(***************************************************************************)
(* The energy of a frame: AudioInterface._calculate_energy on the samples  *)
(* np.frombuffer(data, dtype=np.int16) yields.                             *)
(***************************************************************************)
\* a value reduced to a signed integer of SampleBits bits (two's complement)
WrapSample(x) ==
    ((x + 2 ^ (SampleBits - 1)) % (2 ^ SampleBits)) - 2 ^ (SampleBits - 1)

\* sample values tried: around the threshold, around the largest value whose
\* square fits, powers of two, and the extremes
SampleValues ==
    {0, energy_threshold, energy_threshold + 1, -(energy_threshold + 1),
     181, 182, 256, 2000, -2000,
     2 ^ (SampleBits - 1) - 1, -(2 ^ (SampleBits - 1))}

\* the frames tried: up to MaxSamples samples
Frames == UNION {[1..n -> SampleValues] : n \in 0..MaxSamples}

\* one element of audio_data**2: the array is int16 and so is its square
Square(x) == WrapSample(x * x)

RECURSIVE SumSquares(_)
\* the sum np.mean takes (in float64) over audio_data**2
SumSquares(fr) ==
    IF fr = <<>> THEN 0 ELSE Square(Head(fr)) + SumSquares(Tail(fr))

\* energy > self.energy_threshold for energy = _calculate_energy(data):
\* 0 for an empty frame and for a negative mean, else sqrt(mean_sq); for
\* n samples, sqrt(sum / n) > t exactly when sum > t * t * n
ExceedsThreshold(fr) ==
    IF Len(fr) = 0 THEN 0 > energy_threshold
    ELSE IF SumSquares(fr) < 0 THEN 0 > energy_threshold
    ELSE SumSquares(fr) > energy_threshold * energy_threshold * Len(fr)

\* a frame is read and measured
MeasureFrame ==
    /\ \E fr \in Frames :
           /\ samples' = fr
           /\ above' = ExceedsThreshold(fr)
    /\ UNCHANGED <<voiceVars, message_file, nextId, tailerVars, publishers,
                   procVars, initVars>>

(***************************************************************************)
(* The segmenter and the capture thread: AudioInterface.listen_for_speech  *)
(* driven by listen_worker. A frame is [id, loud, rp]: its number, whether *)
(* its energy exceeds energy_threshold, and whether _paused was set when   *)
(* stream.read returned it. One iteration of the loop is three steps: the  *)
(* read, the test of _paused, the segmentation.                            *)
(***************************************************************************)
NoFrame == [id |-> 0, loud |-> FALSE, rp |-> FALSE]

FrameIds(s) == {s[i].id : i \in 1..Len(s)}

InitCapture ==
    /\ audio_queue = <<>>
    /\ paused = FALSE
    /\ cpc = "read"
    /\ data = NoFrame
    /\ frames = <<>>
    /\ is_speaking = FALSE
    /\ silence_start = 0
    /\ clock = 0
    /\ doomed = {}
    /\ pauseAt = 0
    /\ emitted = <<>>
    /\ errAt = 0

\* data = self.stream.read(self.chunk, exception_on_overflow=False)
ReadFrame ==
    /\ cpc = "read"
    /\ clock < MaxFrames
    /\ \E loud \in BOOLEAN :
           data' = [id |-> clock + 1, loud |-> loud, rp |-> paused]
    /\ clock' = clock + 1
    /\ cpc' = "test"
    /\ UNCHANGED <<audio_queue, paused, frames, is_speaking, silence_start,
                   doomed, pauseAt, emitted, errAt>>
    /\ UNCHANGED <<brokerVars, loopVars>>

\* mutant of ReadError: the handler also abandons the segment in progress
ReadErrorResets ==
    /\ cpc = "read"
    /\ \E dt \in {0, 1} :
           /\ clock + dt <= MaxFrames
           /\ clock' = clock + dt
           /\ errAt' = clock + dt
    /\ cpc' = "read"
    /\ frames' = <<>>
    /\ is_speaking' = FALSE
    /\ silence_start' = 0
    /\ UNCHANGED <<audio_queue, paused, data, doomed, pauseAt, emitted>>
    /\ UNCHANGED <<brokerVars, loopVars>>

\* stream.read raises IOError: except IOError: print; continue. The failed
\* read may have taken the time of a frame, or none.
ReadError ==
    /\ cpc = "read"
    /\ \E dt \in {0, 1} :
           /\ clock + dt <= MaxFrames
           /\ clock' = clock + dt
           /\ errAt' = clock + dt
    /\ cpc' = "read"
    /\ UNCHANGED <<frames, is_speaking, silence_start>>
    /\ UNCHANGED <<audio_queue, paused, data, doomed, pauseAt, emitted>>
    /\ UNCHANGED <<brokerVars, loopVars>>

\* KeyboardInterrupt raised inside the try block, at any statement of it:
\* except KeyboardInterrupt: break. The generator returns; nothing is yielded.
SourceInterrupt ==
    /\ cpc \in {"read", "test", "segment"}
    /\ cpc' = "ended"
    /\ UNCHANGED <<audio_queue, paused, data, frames, is_speaking,
                   silence_start, clock, doomed, pauseAt, emitted, errAt>>
    /\ UNCHANGED <<brokerVars, loopVars>>

\* mutant of TestPaused: the pause branch forgets to unset the silence timer
TestPausedKeepsTimer ==
    /\ cpc = "test"
    /\ IF paused
       THEN /\ cpc' = "read"
            /\ IF is_speaking
               THEN /\ is_speaking' = FALSE
                    /\ frames' = <<>>
                    /\ UNCHANGED silence_start
               ELSE UNCHANGED <<is_speaking, frames, silence_start>>
       ELSE /\ cpc' = "segment"
            /\ UNCHANGED <<is_speaking, frames, silence_start>>
    /\ UNCHANGED <<audio_queue, paused, data, clock, doomed, pauseAt,
                   emitted, errAt>>
    /\ UNCHANGED <<brokerVars, loopVars>>

\* if self._paused: drop the utterance in progress and continue
TestPaused ==
    /\ cpc = "test"
    /\ IF paused
       THEN /\ cpc' = "read"
            /\ IF is_speaking
               THEN /\ is_speaking' = FALSE
                    /\ frames' = <<>>
                    /\ silence_start' = 0
               ELSE UNCHANGED <<is_speaking, frames, silence_start>>
       ELSE /\ cpc' = "segment"
            /\ UNCHANGED <<is_speaking, frames, silence_start>>
    /\ UNCHANGED <<audio_queue, paused, data, clock, doomed, pauseAt,
                   emitted, errAt>>
    /\ UNCHANGED <<brokerVars, loopVars>>

\* mutant of SilenceElapsed: the limit itself already counts as exceeded
SilenceReached(t, start) == t - start >= SilenceLimit

\* time.time() - silence_start > self.silence_limit
SilenceElapsed(t, start) == t - start > SilenceLimit

\* the energy gate, and listen_worker's audio_queue.put of a finished utterance
Segment ==
    /\ cpc = "segment"
    /\ cpc' = "read"
    /\ IF ~is_speaking
       THEN IF data.loud
            THEN /\ is_speaking' = TRUE
                 /\ frames' = <<data>>
                 /\ silence_start' = 0
                 /\ UNCHANGED <<audio_queue, emitted>>
            ELSE UNCHANGED <<is_speaking, frames, silence_start, audio_queue,
                             emitted>>
       ELSE IF data.loud
            THEN /\ frames' = Append(frames, data)
                 /\ silence_start' = 0
                 /\ UNCHANGED <<is_speaking, audio_queue, emitted>>
            ELSE IF silence_start = 0
            THEN /\ frames' = Append(frames, data)
                 /\ silence_start' = clock
                 /\ UNCHANGED <<is_speaking, audio_queue, emitted>>
            ELSE IF SilenceElapsed(clock, silence_start)
            THEN /\ audio_queue' = Append(audio_queue, Append(frames, data))
                 /\ emitted' = Append(emitted, Append(frames, data))
                 /\ frames' = <<>>
                 /\ is_speaking' = FALSE
                 /\ silence_start' = 0
            ELSE /\ frames' = Append(frames, data)
                 /\ UNCHANGED <<is_speaking, silence_start, audio_queue,
                                emitted>>
    /\ UNCHANGED <<paused, data, clock, doomed, pauseAt, errAt>>
    /\ UNCHANGED <<brokerVars, loopVars>>

\* frames of the shortest segment: one loud frame, then silence until
\* SilenceElapsed
SegmentLen == SilenceLimit + 3

\* a whole segment captured without interruption, as one step: from idle and
\* not paused, the capture thread reads one loud frame and then quiet frames
\* until the silence limit has passed, and listen_worker puts the utterance
ListenPut ==
    /\ cpc = "read"
    /\ ~is_speaking
    /\ ~paused
    /\ clock + SegmentLen <= MaxFrames
    /\ clock' = clock + SegmentLen
    /\ LET utterance == [k \in 1..SegmentLen |->
                            [id |-> clock + k, loud |-> (k = 1), rp |-> FALSE]]
       IN /\ audio_queue' = Append(audio_queue, utterance)
          /\ emitted' = Append(emitted, utterance)
    /\ data' = [id |-> clock + SegmentLen, loud |-> FALSE, rp |-> FALSE]
    /\ UNCHANGED <<paused, cpc, frames, is_speaking, silence_start, doomed,
                   pauseAt, errAt>>
    /\ UNCHANGED <<brokerVars, loopVars>>

(***************************************************************************)
(* The command extractor, the transport client and the device state.       *)
(* Actions: "on" is the action 开, "off" is 关, "check" is 检测.           *)
(***************************************************************************)
\* valid_types of recognize_command; the keys of DeviceState.devices
ValidTypes == {"light", "ac", "window", "temperature"}

Cmd(t, a) == [type |-> t, action |-> a]

\* what the LLM answered to the extraction prompt. ok: the request succeeded
\* and the answer parsed as a JSON object; type, action: its top-level keys
\* ("absent" when the key is missing); hasCommands, commands: its "commands".
RawResults ==
    { [ok |-> FALSE, type |-> "absent", action |-> "absent",
       hasCommands |-> FALSE, commands |-> <<>>],
      [ok |-> TRUE, type |-> "absent", action |-> "absent",
       hasCommands |-> TRUE, commands |-> <<>>],
      [ok |-> TRUE, type |-> "absent", action |-> "absent",
       hasCommands |-> TRUE, commands |-> <<Cmd("light", "on")>>],
      [ok |-> TRUE, type |-> "absent", action |-> "absent",
       hasCommands |-> TRUE,
       commands |-> <<Cmd("ac", "on"), Cmd("bogus", "on")>>],
      [ok |-> TRUE, type |-> "none", action |-> "absent",
       hasCommands |-> FALSE, commands |-> <<>>],
      [ok |-> TRUE, type |-> "light", action |-> "on",
       hasCommands |-> FALSE, commands |-> <<>>],
      [ok |-> TRUE, type |-> "bogus", action |-> "on",
       hasCommands |-> FALSE, commands |-> <<>>] }

\* ModelHandler.recognize_command: the fallback {'commands': [], 'potential':
\* []} on any failure; else the answer itself, with 'commands' added when
\* missing (from the single-command format) and filtered to the valid types
RecognizeCommand(raw) ==
    IF ~raw.ok
    THEN [type |-> "absent", action |-> "absent", commands |-> <<>>]
    ELSE [type |-> raw.type, action |-> raw.action,
          commands |-> SelectSeq(
              IF raw.hasCommands THEN raw.commands
              ELSE IF raw.type \notin {"absent", "none"}
                   THEN <<Cmd(raw.type, raw.action)>>
                   ELSE <<>>,
              LAMBDA c : c.type \in ValidTypes)]

\* MQTTClient.send_command on the local broker: the message {type, device,
\* action, timestamp} is published and True is returned
SendCommand(file, id, command, diskOk) ==
    [file |-> BrokerPublish(file, id, CommandTopic, command.type, diskOk).file,
     ok |-> TRUE]

\* DeviceState.__init__; for temperature, last_update stands for last_check
\* and the record has no state of its own ("-")
InitDevices ==
    [d \in ValidTypes |->
        [state |-> IF d = "window" THEN "closed"
                   ELSE IF d = "temperature" THEN "-" ELSE "off",
         last_action |-> "None",
         last_update |-> 0]]

\* DeviceState.update_state; stamp stands for datetime.now()
UpdateState(devs, command, stamp) ==
    LET t == command.type
        a == command.action
    IN IF t \notin DOMAIN devs THEN devs
       ELSE IF t = "temperature"
       THEN [devs EXCEPT ![t].last_update = stamp]
       ELSE [devs EXCEPT
               ![t].state = IF a = "on"
                            THEN (IF t = "window" THEN "open" ELSE "on")
                            ELSE IF a = "off"
                            THEN (IF t = "window" THEN "closed" ELSE "off")
                            ELSE @,
               ![t].last_action = a,
               ![t].last_update = stamp]

\* mutant of AddMessage: the history is a plain list
AddUnbounded(h, role, content) ==
    Append(h, [role |-> role, content |-> content])

\* ConversationManager.add_message on deque(maxlen=max_history)
AddMessage(h, role, content) ==
    LET e == [role |-> role, content |-> content]
    IN IF Len(h) < MaxHistory THEN Append(h, e) ELSE Append(Tail(h), e)

(***************************************************************************)
(* The foreground loop: voice_assistant.main. One iteration is the step    *)
(* Iteration (dequeue, recognise, arbitrate, dispatch, record the reply),  *)
(* followed, when there is a reply, by Pause, Playback and Resume.         *)
(***************************************************************************)
\* len(text) of the recognised text: empty, at most 3 characters, longer
TextLens == {0, 3, 4}
\* analysis.get("intent", "ignore") of the classifier's answer
Intents == {"command", "chat", "ignore", "other"}
\* generate_chat_response: some text, or the empty string
ChatReplies == {"chat", ""}

\* what an iteration did. classified: the intent analyze_intent returned ("-"
\* when it was not called); failed: its request raised; textLen, active:
\* len(text) and is_active; intent: the intent after arbitration
NoIter == [n |-> 0, intent |-> "-", commands |-> <<>>, extracted |-> FALSE,
           pubFailed |-> FALSE, sendResult |-> "none", classified |-> "-",
           textLen |-> 0, active |-> FALSE, failed |-> FALSE]

\* what the classifier request can do: answer with an intent, or raise
\* (connection error, timeout, HTTP error status, unparseable answer)
Answers == Intents \cup {"fail"}

\* mutant of AnalyzeIntent: a failed request classifies every text as ignore
AnalyzeIgnoreOnFailure(answer, textLen) ==
    IF answer = "fail" THEN "ignore" ELSE answer

\* ModelHandler.analyze_intent, the intent of its result: the model's answer,
\* or in the except branch "ignore" when len(user_input) < 2 and "chat"
\* otherwise
AnalyzeIntent(answer, textLen) ==
    IF answer = "fail"
    THEN IF textLen < 2 THEN "ignore" ELSE "chat"
    ELSE answer

InitLoop ==
    /\ fpc = "wait"
    /\ response_text = ""
    /\ devices = InitDevices
    /\ conversation_history = <<>>
    /\ last_interaction_time = 0
    /\ now = ACTIVE_WINDOW
    /\ mqtt_available \in BOOLEAN
    /\ iter = NoIter
    /\ heard = <<>>
    /\ spoken = "none"

\* is_active = (time.time() - last_interaction_time) < ACTIVE_WINDOW
IsActive == (now - last_interaction_time) < ACTIVE_WINDOW

\* mutant of Reclassify: a long enough "ignore" always becomes a chat
ReclassifyAlways(intent0, is_active, textLen) ==
    IF intent0 = "ignore" /\ textLen > 3 THEN "chat" ELSE intent0

\* mutant of Reclassify: the classifier's intent stands
ReclassifyNever(intent0, is_active, textLen) == intent0

\* lines 137-146: "ignore" becomes "chat" in the active window when the text
\* is longer than 3 characters
Reclassify(intent0, is_active, textLen) ==
    IF intent0 = "ignore" /\ is_active /\ textLen > 3 THEN "chat" ELSE intent0

\* lines 94-185 of main for one utterance: the new message file, device
\* state, history and reply, and a record of what the iteration did
Outcome(textLen, intent0, raw, chatReply, diskOk) ==
    LET is_active == IsActive
        intent == Reclassify(intent0, is_active, textLen)
        cmd_result == RecognizeCommand(raw)
        sent == SendCommand(message_file, nextId, cmd_result, diskOk)
        nothing == [file |-> message_file, devices |-> devices,
                    history |-> conversation_history, response |-> "",
                    it |-> [NoIter EXCEPT !.n = iter.n + 1]]
    IN IF textLen = 0 THEN nothing
       ELSE IF intent = "command"
       THEN LET it == [NoIter EXCEPT !.n = iter.n + 1, !.intent = "command",
                                     !.commands = cmd_result.commands,
                                     !.extracted = TRUE]
            IN IF cmd_result.type # "none"
               THEN LET response ==
                            IF ~mqtt_available THEN "unconnected"
                            ELSE IF sent.ok THEN "confirm" ELSE "failure"
                    IN [file |-> IF mqtt_available THEN sent.file
                                 ELSE message_file,
                        devices |-> IF mqtt_available /\ sent.ok
                                    THEN UpdateState(devices, cmd_result,
                                                     iter.n + 1)
                                    ELSE devices,
                        history |-> AddMessage(
                                        AddMessage(conversation_history,
                                                   "user", "utterance"),
                                        "assistant", response),
                        response |-> response,
                        it |-> [it EXCEPT
                                  !.pubFailed = mqtt_available /\ ~diskOk,
                                  !.sendResult =
                                      IF ~mqtt_available THEN "none"
                                      ELSE IF sent.ok THEN "True"
                                      ELSE "False"]]
               ELSE [nothing EXCEPT !.response = "not_understood", !.it = it]
       ELSE IF intent = "chat"
       THEN [nothing EXCEPT
               !.history = AddMessage(
                               AddMessage(conversation_history,
                                          "user", "utterance"),
                               "assistant", chatReply),
               !.response = chatReply,
               !.it = [NoIter EXCEPT !.n = iter.n + 1, !.intent = "chat"]]
       ELSE [nothing EXCEPT !.it.intent = intent]

\* mutant of ShouldSpeak: "did not understand" is not treated as a reply
SpeakUnlessNotUnderstood(response) ==
    response \notin {"", "not_understood"}

\* mutant of ShouldSpeak: every iteration goes on to speak
SpeakAlways(response) == TRUE

\* if should_reply and response_text: should_reply is set in exactly the
\* branches that assign response_text
ShouldSpeak(response) == response # ""

\* mutant of Dequeue: the utterance is looked at and left on the queue
Peek(q) == q

\* audio_queue.get: the queue without its head
Dequeue(q) == Tail(q)

\* mutant of QueueGet: the newest utterance is taken first
QueueGetNewest(q) == q[Len(q)]

\* audio_queue.get: the utterance returned, the oldest one
QueueGet(q) == Head(q)

IterationWith(textLens, answers, raws) ==
    /\ fpc = "wait"
    /\ audio_queue # <<>>
    /\ iter.n < MaxUtter
    /\ nextId <= MaxLines
    /\ \E textLen \in textLens, answer \in answers, raw \in raws,
          chatReply \in ChatReplies, diskOk \in BOOLEAN :
           LET intent0 == AnalyzeIntent(answer, textLen)
               o == Outcome(textLen, intent0, raw, chatReply, diskOk)
           IN /\ audio_queue' = Dequeue(audio_queue)
              /\ heard' = Append(heard, QueueGet(audio_queue))
              /\ message_file' = o.file
              /\ nextId' = IF o.file # message_file THEN nextId + 1 ELSE nextId
              /\ devices' = o.devices
              /\ conversation_history' = o.history
              /\ response_text' = o.response
              /\ iter' = [o.it EXCEPT
                             !.classified = IF textLen = 0 THEN "-" ELSE intent0,
                             !.failed = (textLen # 0 /\ answer = "fail"),
                             !.textLen = textLen,
                             !.active = IsActive]
              /\ IF ShouldSpeak(o.response)
                 THEN /\ last_interaction_time' = now
                      /\ fpc' = "pause"
                 ELSE UNCHANGED <<last_interaction_time, fpc>>
    /\ UNCHANGED <<now, mqtt_available, paused, captureVars, tailerVars,
                   publishers, procVars, otherVars, spoken>>

\* one iteration, for any recognised text and any answers of the collaborators
Iteration == IterationWith(TextLens, Intents, RawResults)

\* lengths of the recognised text when the classifier may be down: a single
\* character as well
FallbackTextLens == TextLens \cup {1}

\* one iteration whose classifier request answers or raises
FallibleIteration == IterationWith(FallbackTextLens, Answers, RawResults)

\* audio.pause()
Pause ==
    /\ fpc = "pause"
    /\ paused' = TRUE
    /\ fpc' = "tts"
    /\ doomed' = IF is_speaking THEN FrameIds(frames) ELSE doomed
    /\ pauseAt' = IF is_speaking THEN clock ELSE pauseAt
    /\ UNCHANGED <<audio_queue, cpc, data, frames, is_speaking, silence_start,
                   clock, emitted, errAt>>
    /\ UNCHANGED <<response_text, devices, conversation_history,
                   last_interaction_time, now, mqtt_available, iter, heard,
                   spoken>>
    /\ UNCHANGED brokerVars

\* text_to_speech returned None ("tts_failed"); it returned the file and
\* play_audio_file caught an error ("play_failed") or played it ("played")
PlaybackOutcomes == {"played", "tts_failed", "play_failed"}

\* mutant of AfterPlayback: a failure ends the iteration at once
SkipResumeOnFailure(outcome) == IF outcome = "played" THEN "resume" ELSE "wait"

\* where the loop goes after lines 197-204: both calls catch every Exception
\* and return, so the next statement is audio.resume()
AfterPlayback(outcome) == "resume"

\* speech.text_to_speech and speech.play_audio_file: both return, played or not
Playback ==
    /\ fpc = "tts"
    /\ \E outcome \in PlaybackOutcomes :
           /\ spoken' = outcome
           /\ fpc' = AfterPlayback(outcome)
    /\ UNCHANGED <<audio_queue, paused, captureVars>>
    /\ UNCHANGED <<response_text, devices, conversation_history,
                   last_interaction_time, now, mqtt_available, iter, heard>>
    /\ UNCHANGED brokerVars

\* audio.resume()
Resume ==
    /\ fpc = "resume"
    /\ paused' = FALSE
    /\ fpc' = "wait"
    /\ UNCHANGED <<audio_queue, captureVars>>
    /\ UNCHANGED <<response_text, devices, conversation_history,
                   last_interaction_time, now, mqtt_available, iter, heard,
                   spoken>>
    /\ UNCHANGED brokerVars

\* the wall clock advances
Tick ==
    /\ now < MaxTime
    /\ now' = now + 1
    /\ UNCHANGED <<audio_queue, paused, captureVars>>
    /\ UNCHANGED <<fpc, response_text, devices, conversation_history,
                   last_interaction_time, mqtt_available, iter, heard,
                   spoken>>
    /\ UNCHANGED brokerVars

Init == InitBroker /\ InitCapture /\ InitLoop

(***************************************************************************)
(* Specifications of the voice assistant.                                  *)
(***************************************************************************)
\* the foreground loop, fed finished utterances by the capture thread
NextVoice == ListenPut \/ Iteration \/ Pause \/ Playback \/ Resume \/ Tick
SpecVoice == Init /\ [][NextVoice]_vars

\* the energy gate applied to one frame after another
SpecEnergy == Init /\ [][MeasureFrame]_vars

\* the foreground loop with a classifier that can fail
NextFallback ==
    ListenPut \/ FallibleIteration \/ Pause \/ Playback \/ Resume \/ Tick
SpecFallback == Init /\ [][NextFallback]_vars

\* an iteration that answers a chat, or recognises nothing
ChatIteration == IterationWith({0, 4}, {"chat"}, {CHOOSE r \in RawResults : ~r.ok})

\* the capture thread, frame by frame, against the foreground loop's pause()
\* and resume()
NextCapture ==
    ReadFrame \/ TestPaused \/ Segment \/ ChatIteration \/ Pause \/ Playback
    \/ Resume
SpecCapture == Init /\ [][NextCapture]_vars

\* the generator listen_for_speech on its own, over a source whose reads can
\* fail and that can be interrupted
NextSource ==
    ReadFrame \/ ReadError \/ TestPaused \/ Segment \/ SourceInterrupt
SpecSource == Init /\ [][NextSource]_vars

\* any sequence of add_message calls; the content of the k-th message is k
AddAny ==
    LET k == IF conversation_history = <<>> THEN 1
             ELSE conversation_history[Len(conversation_history)].content + 1
    IN /\ k <= MaxAdds
       /\ \E role \in {"user", "assistant"} :
              conversation_history' = AddMessage(conversation_history, role, k)
       /\ UNCHANGED <<audio_queue, paused, captureVars, brokerVars>>
       /\ UNCHANGED <<fpc, response_text, devices, last_interaction_time, now,
                      mqtt_available, iter, heard, spoken>>
SpecHistory == Init /\ [][AddAny]_vars

\* the same, with the wall clock advancing
NextBargeIn == NextCapture \/ Tick
SpecBargeIn == Init /\ [][NextBargeIn]_vars

(***************************************************************************)
(* Specifications of the broker.                                           *)
(***************************************************************************)
PublishAny == \E topic \in AllTopics : Publish(topic)
ForeignAny == \E kind \in ForeignKinds : AppendForeign(kind)

\* the file only receives records written by publish
NextPublish == PublishAny \/ PollBegin \/ DeliverLine \/ PollEnd \/ Consume
SpecPublish == Init /\ [][NextPublish]_vars

\* the file is only appended to, by publish or by anything else
NextAppend ==
    PublishAny \/ ForeignAny \/ PollBegin \/ DeliverLine \/ PollEnd \/ Consume
SpecAppend == Init /\ [][NextAppend]_vars

\* the tailer thread is scheduled again and again while it is running
FairAppend == SpecAppend /\ WF_vars(Tailer)

\* several callers inside publish at once
NextPublishers ==
    \E p \in 1..NumPublishers : PubOpen(p) \/ PubWrite(p) \/ PubReturn(p)
SpecPublishers == Init /\ [][NextPublishers]_vars

\* the file may also be truncated
PublishLocalAny == \E topic \in AllTopics : PublishLocal(topic)
SubscribeAny == \E topic \in AllTopics, q \in QueueIds : SubscribeQueue(topic, q)

\* one process that subscribes its own queues and publishes
NextFastPath == PublishLocalAny \/ SubscribeAny

SpecFastPath == Init /\ [][NextFastPath]_vars

\* the threads of one process, each calling get_broker again and again
NextGetBroker == \E t \in 1..NumThreads : get_broker(t)

SpecGetBroker == Init /\ [][NextGetBroker]_vars

\* the subscriber process with its tailer thread, a publisher in another
\* process, and an interrupt
NextShutdown ==
    \/ PublishAny
    \/ PollBegin \/ DeliverLine \/ PollEnd \/ Consume
    \/ Interrupt \/ SimulatorStop

SpecShutdown == Init /\ [][NextShutdown]_vars

\* the threads are scheduled: the tailer thread and the main thread go on
FairShutdown ==
    SpecShutdown /\ WF_vars(Tailer) /\ WF_vars(SimulatorStop)

\* the tailer delivering statement by statement, the consumer thread of the
\* same queue, and a publisher
NextOverflow ==
    \/ PublishAny
    \/ PollBegin \/ DeliverTry \/ EvictTest \/ EvictGet \/ EvictInsert
    \/ PollEnd \/ Consume
SpecOverflow == Init /\ [][NextOverflow]_vars

\* processes starting at about the same time, each constructing its broker
\* and then publishing
NextConstruct ==
    \E p \in 1..NumProcs : CtorTest(p) \/ CtorCreate(p) \/ ProcPublish(p)

InitStart == InitBrokerState /\ Unconstructed /\ InitCapture /\ InitLoop

SpecConstruct == InitStart /\ [][NextConstruct]_vars

NextBroker ==
    \/ PublishAny \/ ForeignAny \/ Truncate
    \/ PollBegin \/ DeliverLine \/ PollEnd \/ Consume
SpecBroker == Init /\ [][NextBroker]_vars

(***************************************************************************)
(* Properties of the voice loop and the segmenter.                         *)
(***************************************************************************)
\* C1: an iteration that takes the command branch and whose extractor
\* returned an empty command list publishes nothing, leaves the device state
\* unchanged and replies "did not understand".
C1_NoCommandNoPublish ==
    [][(iter'.n # iter.n /\ iter'.extracted /\ iter'.commands = <<>>)
       => (/\ message_file' = message_file
           /\ devices' = devices
           /\ response_text' = "not_understood")]_vars

\* C2: when the broker's publish fails to write the record, send_command
\* returns False to the voice loop, nothing is appended (no retry), and the
\* device state is left unchanged.
C2_PublishFailureReported ==
    [][(iter'.n # iter.n /\ iter'.pubFailed)
       => (/\ iter'.sendResult = "False"
           /\ message_file' = message_file
           /\ devices' = devices)]_vars

\* C3: once pause() has hit a segment in progress, no frame buffered at that
\* moment appears in an emitted utterance, and the segmenter is idle when the
\* capture thread has finished with the next frame.
C3_PauseDropsSegment ==
    /\ \A i \in 1..Len(audio_queue) : FrameIds(audio_queue[i]) \cap doomed = {}
    /\ (pauseAt # 0 /\ cpc = "read" /\ clock = pauseAt + 1) => ~is_speaking

\* C4: no frame read from the audio source while _paused was set is part of
\* an emitted utterance.
C4_NoSelfCapture ==
    \A i \in 1..Len(audio_queue) :
        \A j \in 1..Len(audio_queue[i]) : ~audio_queue[i][j].rp

\* the segmenter finalizes: from Speaking, the segmentation step ends Idle
Finalizes == cpc = "segment" /\ is_speaking /\ ~is_speaking'

\* C13: a step in which the segmenter finalizes puts exactly one utterance on
\* the capture queue and nothing else puts one; the utterances the foreground
\* loop got, followed by those still queued, are exactly the utterances put,
\* each once; and no frame is in two utterances or twice in one.
C13_OneUtterancePerSegment ==
    /\ [][Finalizes => /\ Len(emitted') = Len(emitted) + 1
                       /\ audio_queue' =
                              Append(audio_queue, emitted'[Len(emitted')])]_vars
    /\ [][emitted' # emitted => Finalizes]_vars
    /\ [](heard \o audio_queue = emitted)
    /\ [](\A i, j \in 1..Len(emitted) :
             i # j => FrameIds(emitted[i]) \cap FrameIds(emitted[j]) = {})
    /\ [](\A i \in 1..Len(emitted) :
             Cardinality(FrameIds(emitted[i])) = Len(emitted[i]))

\* two segments were finalized and the loop has got the first utterance
C13_Witness == Len(emitted) >= 2 /\ Len(heard) >= 1

\* C14: no step puts an utterance on the capture queue while _paused is set,
\* and the foreground loop gets none while it is set.
C14_NoPutWhilePaused ==
    /\ [][emitted' # emitted => ~paused]_vars
    /\ [][heard' # heard => ~paused]_vars

RECURSIVE QuietTail(_)
\* the number of below-threshold frames at the end of a frame sequence
QuietTail(fr) ==
    IF fr = <<>> \/ fr[Len(fr)].loud THEN 0
    ELSE 1 + QuietTail(SubSeq(fr, 1, Len(fr) - 1))

\* no run of below-threshold frames inside fr is as long as n
NoQuietRun(fr, n) ==
    \A i \in 1..Len(fr) : QuietTail(SubSeq(fr, 1, i)) < n \/ i = Len(fr)

C16_PlaybackBracketed ==
    /\ [][spoken' # spoken \/ (fpc = "tts" /\ fpc' # "tts") => paused]_vars
    /\ [][(fpc = "pause" /\ fpc' # "pause") => paused']_vars
    /\ [][(fpc # "wait" /\ fpc' = "wait") => (fpc = "resume" /\ ~paused')]_vars
    /\ [](fpc = "wait" => ~paused)

\* the loop waits again after a reply whose synthesis or playback failed
C16_Witness ==
    fpc = "wait" /\ spoken \in {"tts_failed", "play_failed"} /\ iter.n >= 1

\* the utterance holds a frame that was read while _paused was set
HeardDuringPause(u) == \E k \in 1..Len(u) : u[k].rp

\* C17: the iteration that produces a reply sets last_interaction_time to the
\* current time before pause() is called; no step of the reply (pause,
\* synthesis and playback, resume) changes it; and no utterance holding
\* audio read during the pause changes it when it is processed.
C17_WindowSetBeforePlayback ==
    /\ [][(fpc = "wait" /\ fpc' = "pause")
          => (last_interaction_time' = now /\ ~paused')]_vars
    /\ [][last_interaction_time' # last_interaction_time
          => (fpc = "wait" /\ ~paused)]_vars
    /\ [][(heard' # heard /\ HeardDuringPause(Head(audio_queue)))
          => last_interaction_time' = last_interaction_time]_vars

\* C18: an iteration whose utterance the classifier called "ignore", outside
\* the active window or with a text of at most 3 characters, produces no
\* reply and leaves the history, last_interaction_time, the device state,
\* the pause flag and the message file as they were.
C18_IgnoreDropped ==
    [][(iter'.n # iter.n /\ iter'.classified = "ignore"
        /\ (~iter'.active \/ iter'.textLen <= 3))
       => (/\ response_text' = ""
           /\ fpc' = "wait"
           /\ conversation_history' = conversation_history
           /\ last_interaction_time' = last_interaction_time
           /\ devices' = devices
           /\ paused' = paused
           /\ message_file' = message_file)]_vars

\* after a reply, a long "ignore" utterance was dropped outside the window
C18_Witness ==
    /\ iter.classified = "ignore" /\ ~iter.active /\ iter.textLen > 3
    /\ conversation_history # <<>>

\* C19: an iteration whose utterance the classifier called "ignore", inside
\* the active window and with a text longer than 3 characters, is processed
\* as chat: it produces a reply, which is about to be spoken, and appends the
\* user's utterance and then that reply to the history.
C19_IgnoreReclassified ==
    [][(iter'.n # iter.n /\ iter'.classified = "ignore"
        /\ iter'.active /\ iter'.textLen > 3)
       => (/\ iter'.intent = "chat"
           /\ response_text' # ""
           /\ fpc' = "pause"
           /\ conversation_history' =
                  AddMessage(AddMessage(conversation_history,
                                        "user", "utterance"),
                             "assistant", response_text'))]_vars

\* C20: an iteration that produces a reply, in whatever branch, has appended
\* the user's utterance and then the reply to the history when it ends, and
\* playback has not started yet.
C20_ReplyRecorded ==
    [][(iter'.n # iter.n /\ response_text' # "")
       => (/\ conversation_history' =
                  AddMessage(AddMessage(conversation_history,
                                        "user", "utterance"),
                             "assistant", response_text')
           /\ fpc' = "pause"
           /\ ~paused')]_vars

\* C21: an iteration that produces a reply, the "did not understand" reply
\* included, sets last_interaction_time to the current time; an iteration
\* that ends without a reply leaves it unchanged; and no other step changes
\* it.
C21_WindowOnlyOnReply ==
    /\ [][(iter'.n # iter.n /\ response_text' # "")
          => last_interaction_time' = now]_vars
    /\ [][(iter'.n # iter.n /\ response_text' = "")
          => last_interaction_time' = last_interaction_time]_vars
    /\ [][last_interaction_time' # last_interaction_time
          => (iter'.n # iter.n /\ response_text' # "")]_vars

\* a "did not understand" reply has moved the window to a later time
C21_Witness ==
    /\ response_text = "not_understood"
    /\ last_interaction_time > ACTIVE_WINDOW
    /\ iter.n >= 2

RECURSIVE UpdateAll(_, _, _)
\* the device state after update_state for each command of a list in turn
UpdateAll(devs, commands, stamp) ==
    IF commands = <<>> THEN devs
    ELSE UpdateAll(UpdateState(devs, Head(commands), stamp), Tail(commands),
                   stamp)

\* C22: an iteration whose extractor returned k >= 1 commands, with the
\* transport connected and the file writable, appends exactly k records on
\* the command topic, the j-th carrying the type of the j-th command, and
\* updates the device state for each of them.
C22_EachCommandDispatched ==
    [][(iter'.n # iter.n /\ iter'.extracted /\ iter'.commands # <<>>
        /\ mqtt_available /\ ~iter'.pubFailed)
       => LET k == Len(iter'.commands)
              base == Len(message_file)
          IN /\ Len(message_file') = base + k
             /\ \A j \in 1..k :
                    /\ message_file'[base + j].kind = "record"
                    /\ message_file'[base + j].topic = CommandTopic
                    /\ message_file'[base + j].type = iter'.commands[j].type
             /\ devices' = UpdateAll(devices, iter'.commands, iter'.n)]_vars

\* C23: every record the voice loop has appended to the message file
\* carries a command type among light, ac, window and temperature.
C23_PublishedTypeValid ==
    \A i \in 1..Len(message_file) :
        (message_file[i].kind = "record"
         /\ message_file[i].topic = CommandTopic)
            => message_file[i].type \in ValidTypes

\* C24: after any sequence of add_message calls the history holds at most
\* MaxHistory entries; a call below capacity appends the entry, a call at
\* capacity drops the oldest entry and appends; so the entries are always
\* the most recent ones, in the order they were added.
C24_HistoryBounded ==
    /\ [](Len(conversation_history) <= MaxHistory)
    /\ [][conversation_history' # conversation_history
          => LET h == conversation_history
                 kept == SubSeq(conversation_history', 1,
                                Len(conversation_history') - 1)
             IN kept = IF Len(h) < MaxHistory THEN h ELSE Tail(h)]_vars
    /\ [](\A i \in 1..(Len(conversation_history) - 1) :
             conversation_history[i + 1].content
                 = conversation_history[i].content + 1)

\* the history is full and its oldest entries have been evicted
C24_Witness ==
    /\ Len(conversation_history) = MaxHistory
    /\ conversation_history[1].content > 1

(***************************************************************************)
(* Properties of the broker.                                               *)
(***************************************************************************)
StrictlyIncreasing(s) == \A i, j \in 1..Len(s) : i < j => s[i] < s[j]

\* the matching records of the file appended since its last truncation
CmdSince(first) ==
    {i \in 1..Len(message_file) :
        TopicMatches(message_file[i], Topics) /\ message_file[i].id >= first}

\* the tailer is between two polls and has nothing left to read
CaughtUp == tpc = "poll" /\ last_position = SizeOf(message_file)

\* C5: records published to the tailer's topic reach the subscriber in publish
\* order: when the file holds only published records, the sequence numbers
\* the subscriber dequeued, followed by those still queued, strictly increase.
C5_PublishOrder == StrictlyIncreasing(received \o callback_queue)

C5_Witness == Len(received) >= 2 /\ callback_queue # <<>>

\* C6: after a truncation that cut the file below the tailer's offset, the next
\* poll resets the offset to 0; and once the tailer has caught up with the
\* file, every matching record appended since the last truncation has been
\* enqueued.
C6_TruncationHeals ==
    /\ [][(cutBelow /\ ~cutBelow') => last_position' = 0]_vars
    /\ [](CaughtUp => \A i \in CmdSince(truncId) :
                          message_file[i].id \in enqueued)

\* C7: while the file is only appended to, the tailer's offset never
\* decreases, and a poll that found new content ends with the offset at the
\* end of the file as read.
C7_OffsetMonotone ==
    /\ [][last_position' >= last_position]_vars
    /\ [][(tpc = "deliver" /\ tpc' = "poll") => last_position' = readEnd]_vars

C9_MalformedSkipped ==
    tpc = "poll" =>
        \A i \in 1..Len(message_file) :
            message_file[i].id \in parsedBad =>
                /\ EndOf(message_file, i) <= last_position
                /\ \A j \in CmdSince(1) :
                       (j > i /\ EndOf(message_file, j) <= readEnd)
                           => message_file[j].id \in enqueued

\* C10: under fair scheduling of the tailer, every record on the tailer's
\* topic that is appended to the file is eventually enqueued.
C10_EventuallyEnqueued ==
    \A id \in 1..MaxLines :
        (\E i \in CmdSince(1) : message_file[i].id = id) ~> (id \in enqueued)

\* the subscriber's view: what it dequeued, then what is still queued for it
Delivered == received \o callback_queue

NoDuplicates(s) == \A i, j \in 1..Len(s) : i # j => s[i] # s[j]

\* C11: with a tailer started on the topic before the publishes, a poll that
\* begins after a publish returned ends with that record put on the
\* subscriber's queue; the tailer puts each record once; and the subscriber
\* gets nothing but the records published to its topic, none of them twice.
C11_DeliveredOnce ==
    /\ [][(tpc = "deliver" /\ tpc' = "poll")
          => \A i \in CmdSince(1) :
                 EndOf(message_file, i) <= readEnd
                     => putCount'[message_file[i].id] = 1]_vars
    /\ [](\A id \in 1..MaxLines : putCount[id] <= 1)
    /\ [](\A k \in 1..Len(Delivered) :
             \E i \in 1..Len(message_file) :
                 /\ message_file[i].id = Delivered[k]
                 /\ message_file[i].kind = "record"
                 /\ message_file[i].topic = CommandTopic)
    /\ [](NoDuplicates(Delivered))

\* the subscriber has received a record while a record of another topic is in
\* the file
C11_Witness ==
    /\ received # <<>>
    /\ \E i \in 1..Len(message_file) : message_file[i].topic # CommandTopic
    /\ tpc = "poll" /\ last_position = SizeOf(message_file)

IsPrefix(a, b) == Len(a) <= Len(b) /\ SubSeq(b, 1, Len(a)) = a

\* the lines of the file written by the publish that got sequence number id
LinesOf(file, id) == {i \in 1..Len(file) : file[i].id = id}

\* C12: with several callers inside publish at once, no step changes or
\* removes a line of the log; the write of a publish appends exactly one
\* record, with the caller's topic; and from the write on, through the return
\* of True, the log as it was when the call began is a prefix of the log and
\* the log holds that one record.
C12_PublishAppendsOne ==
    /\ [][IsPrefix(message_file, message_file')]_vars
    /\ [][\A p \in 1..NumPublishers :
            (publishers[p].pc = "opened" /\ publishers'[p].pc = "written")
                => /\ Len(message_file') = Len(message_file) + 1
                   /\ message_file'[Len(message_file')].kind = "record"
                   /\ message_file'[Len(message_file')].topic
                          = publishers[p].topic]_vars
    /\ [](\A p \in 1..NumPublishers :
             (publishers[p].pc = "written" \/ publishers[p].result = "True")
                 => /\ IsPrefix(publishers[p].before, message_file)
                    /\ Len(message_file) > Len(publishers[p].before)
                    /\ Cardinality(LinesOf(message_file, publishers[p].id)) = 1)

\* two calls that began on the same log have both returned True
C12_Witness ==
    /\ \A p \in 1..NumPublishers :
           publishers[p].pc = "idle" /\ publishers[p].result = "True"
    /\ publishers[1].before = publishers[2].before
    /\ publishers[1].id # publishers[2].id

\* the records of the file on a topic the tailer was not started with
OtherTopic == {i \in 1..Len(message_file) :
                  message_file[i].kind = "record"
                  /\ message_file[i].topic \notin Topics}

Published == Len(message_file') = Len(message_file) + 1

\* the record a successful publish appended
NewRecord == message_file'[Len(message_file')]

\* C26: a successful publish puts its message, within the call, at the tail
\* of every queue subscribed to exactly the published topic that has room, and
\* leaves every other queue as it was: the queues subscribed only to other
\* topics, and the subscribed queues that are full (nothing waits for room,
\* and the subscribers listed after a full queue are still served).
C26_FastPathDelivery ==
    [][Published =>
          \A q \in QueueIds :
              queues'[q] =
                  IF /\ q \in Range(subscriptions[NewRecord.topic])
                     /\ Len(queues[q]) < QueueCap
                  THEN Append(queues[q], NewRecord.id)
                  ELSE queues[q]]_vars

\* a publish has just succeeded with two subscribers of its topic, the first
\* listed one full and left as it was, a later one served, and a third queue
\* subscribed only to the other topic and left without the message
C26_Witness ==
    /\ fast.ok
    /\ \E i, j \in 1..Len(subscriptions[fast.topic]) :
           LET qf == subscriptions[fast.topic][i]
               qs == subscriptions[fast.topic][j]
           IN /\ i < j
              /\ qf \in fast.full
              /\ Len(queues[qf]) = QueueCap
              /\ \A k \in 1..Len(queues[qf]) : queues[qf][k] # fast.id
              /\ queues[qs] # <<>>
              /\ queues[qs][Len(queues[qs])] = fast.id
    /\ \E q \in QueueIds :
           /\ q \notin Range(subscriptions[fast.topic])
           /\ \E t \in AllTopics : q \in Range(subscriptions[t])
           /\ \A k \in 1..Len(queues[q]) : queues[q][k] # fast.id


(***************************************************************************)
(* Properties of the process-wide broker.                                  *)
(***************************************************************************)
\* C27: at most one LocalMQTTBroker is ever constructed in a process, and
\* every call of get_broker returns that one instance, also when the first
\* calls are made concurrently by several threads.
C27_SingleInstance ==
    /\ instances <= 1
    /\ \A t, u \in 1..NumThreads :
           (callers[t].got # 0 /\ callers[u].got # 0)
               => callers[t].got = callers[u].got


(***************************************************************************)
(* Properties of the shutdown.                                             *)
(***************************************************************************)
\* C28: after an interrupt the tailer eventually stops: its running flag
\* is cleared and read_messages has left its loop.
C28_InterruptStopsTailer ==
    interrupted ~> (~running /\ tpc = "stopped")


(***************************************************************************)
(* Properties of the capture sequence under read errors and interrupts.    *)
(***************************************************************************)
\* an utterance with frames read before and after the last failed read
SpansError(u) ==
    /\ \E k \in 1..Len(u) : u[k].id <= errAt
    /\ \E k \in 1..Len(u) : u[k].id > errAt

\* C29: a failed frame read leaves the sequence running and the segmentation
\* state (is_speaking, frames, silence_start) as it was; the first good frame
\* after it is added to the segment in progress (or closes it); once an
\* interrupt has ended the sequence nothing is emitted any more, the partial
\* utterance included.
C29_ReadErrorTolerated ==
    /\ [][errAt' # errAt
            => /\ cpc' = "read"
               /\ UNCHANGED <<is_speaking, frames, silence_start>>]_vars
    /\ [][(cpc = "segment" /\ cpc' = "read" /\ is_speaking
             /\ data.id = errAt + 1)
            => \/ frames' = Append(frames, data)
               \/ /\ frames' = <<>>
                  /\ emitted' = Append(emitted, Append(frames, data))]_vars
    /\ [][cpc' = "ended"
            => /\ emitted' = emitted
               /\ audio_queue' = audio_queue]_vars

\* a segment went on across a failed read and was emitted whole, and an
\* interrupt then ended the sequence in the middle of the next segment, whose
\* frames were not emitted
C29_Witness ==
    /\ cpc = "ended"
    /\ is_speaking
    /\ frames # <<>>
    /\ Len(emitted) = 1
    /\ SpansError(emitted[1])
    /\ \A k \in 1..Len(frames) : frames[k].id \notin FrameIds(emitted[1])


C31_TimerOnlyWhileSpeaking ==
    /\ [](~is_speaking => (silence_start = 0 /\ frames = <<>>))
    /\ [][(cpc = "segment" /\ cpc' = "read" /\ is_speaking)
            => /\ (~data.loud /\ silence_start = 0 /\ is_speaking')
                      => silence_start' # 0
               /\ data.loud => silence_start' = 0]_vars

\* a segment in progress at a frame boundary whose timer was armed by a quiet
\* frame and cleared again by the loud frame after it
C31_Witness ==
    /\ cpc = "read"
    /\ is_speaking
    /\ silence_start = 0
    /\ \E k \in 1..(Len(frames) - 1) : ~frames[k].loud /\ frames[k + 1].loud


(***************************************************************************)
(* Properties of the energy gate.                                          *)
(***************************************************************************)
Magnitude(x) == IF x < 0 THEN -x ELSE x

\* C32: a frame whose samples all have a magnitude greater than
\* energy_threshold has an energy greater than energy_threshold, also when
\* the square of a sample does not fit in 16 bits.
C32_LoudFrameExceeds ==
    (samples # <<>>
     /\ \A k \in 1..Len(samples) : Magnitude(samples[k]) > energy_threshold)
        => above


(***************************************************************************)
(* Properties of the capture queue.                                        *)
(***************************************************************************)
\* C33: the number of utterances waiting in the capture queue never exceeds
\* the queue's capacity, however slowly the foreground loop drains it.
C33_CaptureQueueBounded == Len(audio_queue) <= CaptureCap


\* C34: the foreground loop takes the utterances in the order the segmenter
\* emitted them, and takes the next one only when it has finished the one
\* before (it is back at the top of its loop, reply spoken and capture
\* resumed).
C34_CaptureOrder ==
    /\ [](/\ Len(heard) <= Len(emitted)
          /\ \A i \in 1..Len(heard) : heard[i] = emitted[i])
    /\ [][heard' # heard
            => /\ fpc = "wait"
               /\ Len(emitted) > Len(heard)
               /\ heard' = Append(heard, emitted[Len(heard) + 1])]_vars

\* two different utterances were emitted and the loop has taken both, in the
\* order of their emission
C34_Witness ==
    /\ Len(heard) = 2
    /\ Len(emitted) = 2
    /\ heard[1] = emitted[1]
    /\ heard[2] = emitted[2]
    /\ heard[1] # heard[2]
    /\ iter.n = 2


(***************************************************************************)
(* Further properties of the tailer.                                       *)
(***************************************************************************)
\* C35: on a file that is only appended to, whatever its lines contain, the
\* tailer puts each record on its queue at most once.
C35_EnqueuedAtMostOnce == \A id \in 1..MaxLines : putCount[id] <= 1


\* the step ends an overflow handling: the handler is left for the next line
OverflowEnds == tpc \in {"evict_test", "evict_get", "insert"} /\ tpc' = "deliver"

\* C36: however the consumer's dequeues fall between the statements of the
\* tailer's overflow handler, the handler ends with the message it was
\* delivering in the queue, as the newest one.
C36_OverflowKeepsNewest ==
    [][OverflowEnds
          => /\ callback_queue' # <<>>
             /\ callback_queue'[Len(callback_queue')] = Head(new_lines).id]_vars


(***************************************************************************)
(* Further properties of the same-process fast path.                       *)
(***************************************************************************)
\* the ids of the records in the message file
Logged == {message_file[i].id : i \in 1..Len(message_file)}

\* C37: a publish that fails to write the file returns False, puts nothing
\* on any queue and leaves the subscription table and the file as they were;
\* so every message on a subscriber's queue is also in the file.
C37_NoFastPathOnFailure ==
    /\ [][(fast' # fast /\ ~fast'.ok)
            => /\ queues' = queues
               /\ subscriptions' = subscriptions
               /\ message_file' = message_file]_vars
    /\ [](\A q \in QueueIds : Range(queues[q]) \subseteq Logged)

\* a publish has just failed on a topic with a subscribed queue that had
\* room: the queue did not get the message
C37_Witness ==
    /\ fast.id # 0
    /\ ~fast.ok
    /\ fast.id = nextId
    /\ \E q \in fast.listed :
           /\ q \notin fast.full
           /\ fast.id \notin Range(queues[q])


\* how many times m is in the sequence q
Occurrences(q, m) == Cardinality({k \in 1..Len(q) : q[k] = m})

\* C38: however often a queue is subscribed to a topic it is registered once,
\* a repeated subscribe leaves the table as it is, and a publish on the topic
\* puts its message on that queue exactly once (if the queue has room).
C38_SubscribeIdempotent ==
    /\ [](\A t \in AllTopics :
             \A i, j \in 1..Len(subscriptions[t]) :
                 i # j => subscriptions[t][i] # subscriptions[t][j])
    /\ [][resubscribed' # resubscribed => subscriptions' = subscriptions]_vars
    /\ [][Published
            => \A q \in Range(subscriptions[NewRecord.topic]) :
                   Len(queues[q]) < QueueCap
                       => Occurrences(queues'[q], NewRecord.id) = 1]_vars

\* a queue was subscribed twice to a topic, and the last publish on that
\* topic left its message once on the queue
C38_Witness ==
    /\ fast.ok
    /\ \E q \in QueueIds :
           /\ resubscribed = <<fast.topic, q>>
           /\ q \in fast.listed
           /\ Occurrences(queues[q], fast.id) = 1


(***************************************************************************)
(* Properties of the broker's construction.                                *)
(***************************************************************************)
\* C39: constructing a broker leaves the contents of a message file that
\* exists as they are (an empty file is created only where there is none),
\* so no record already written is lost.
C39_ConstructionKeepsLog ==
    [][(ctors' # ctors /\ file_exists) => message_file' = message_file]_vars


(***************************************************************************)
(* Further properties of the foreground loop.                              *)
(***************************************************************************)
\* the step is an iteration of the loop that had nothing to act on: the
\* recognised text was empty, or the classifier's intent is none of command,
\* chat and ignore
IdleIteration ==
    /\ iter'.n = iter.n + 1
    /\ \/ iter'.textLen = 0
       \/ iter'.classified \notin {"command", "chat", "ignore"}

\* C40: an iteration whose text is empty or whose classified intent is none
\* of command, chat and ignore produces no reply and leaves the conversation
\* history, last_interaction_time, the device state, the pause flag and the
\* message file unchanged; for an empty text the classifier is not called.
C40_IdleIterationChangesNothing ==
    [][IdleIteration
          => /\ fpc' = "wait"
             /\ spoken' = spoken
             /\ conversation_history' = conversation_history
             /\ last_interaction_time' = last_interaction_time
             /\ devices' = devices
             /\ paused' = paused
             /\ message_file' = message_file
             /\ iter'.textLen = 0
                    => (iter'.classified = "-" /\ ~iter'.failed)]_vars

\* after an iteration that replied, the loop is back at its queue after an
\* iteration whose intent was none of the three: the history still holds the
\* first exchange only
C40_Witness ==
    /\ iter.n = 2
    /\ iter.textLen > 0
    /\ iter.classified = "other"
    /\ fpc = "wait"
    /\ Len(conversation_history) = 2
    /\ last_interaction_time > 0

====
